---- MODULE Spec2Model ----
(***************************************************************************)
(* Model of the scoring engine of src/Sxoring_Engine.py: the function      *)
(* Sxoring_Engine(scorecard_template, extracted_data) and its helpers.     *)
(*                                                                         *)
(* Numbers.  Rubric points are integers (or a non-numeric JSON value such  *)
(* as "40" or null).  Earned points are kept in HUNDREDTHS of a point, so  *)
(* max_points * 0.8 is max_points * 80 and round(x, 2) of a sum of such    *)
(* terms is the sum itself.  A percentage is the exact rational n/d.       *)
(***************************************************************************)
EXTENDS Integers, Sequences, FiniteSets, TLC

VARIABLES
    scorecard_template,  \* input: the rubric as handed to Sxoring_Engine
    extracted_data,      \* input: the vendor payload as handed to Sxoring_Engine
    pc,                  \* position in the body of Sxoring_Engine
    scorecard,           \* local `scorecard` (line 466)
    vendor_data,         \* local `vendor_data` (lines 467, 481)
    vendors_list,        \* local `vendors_list` (line 483)
    vendor_scores,       \* local `vendor_scores` (lines 487-493)
    mock_used,           \* whether create_mock_vendor_data() supplied the vendors
    result,              \* the value returned by Sxoring_Engine
    run,                 \* which call of Sxoring_Engine on these inputs this is
    first_result         \* the value the first call returned

vars == <<scorecard_template, extracted_data, pc, scorecard, vendor_data,
          vendors_list, vendor_scores, mock_used, result, run, first_result>>

----------------------------------------------------------------------------
(* Bounds of the model *)

\* longest `criteria` list of a list-shaped rubric input
MaxCriteria == 2
\* longest `vendors` list of a structured vendor payload
MaxVendors == 2
\* number of calls of Sxoring_Engine made on the same pair of inputs
MaxRuns == 2

----------------------------------------------------------------------------
(* JSON values of a `points` / `weight` field *)

Num(n) == [num |-> TRUE, val |-> n]
\* a value arithmetic rejects: a string such as "40" or "30%", null, a list
NonNumeric == [num |-> FALSE, val |-> 0]

\* a mapping of sub-criterion name -> points with no entries
NoCriteria == [s \in {} |-> 0]

Categories ==
    <<"technical_capability", "cost_effectiveness", "vendor_experience",
      "implementation_approach">>

CategorySet == {Categories[i] : i \in 1..4}

\* category_mapping of normalize_scorecard_structure
category_mapping(key) ==
    CASE key = "technical_capability" -> 35
      [] key = "cost_effectiveness" -> 25
      [] key = "vendor_experience" -> 20
      [] key = "implementation_approach" -> 20

\* One value of the normalized scorecard.  kind "mapping" is a JSON object;
\* kind "text" is a non-mapping value that passes the test `"points" in value`
\* (a string or list containing "points") and is therefore kept verbatim.
Entry(points, criteria) ==
    [kind |-> "mapping", has_points |-> TRUE, points |-> points, criteria |-> criteria]

\* the {} that scorecard.get(key, {}) yields for a missing key
EmptyEntry ==
    [kind |-> "mapping", has_points |-> FALSE, points |-> Num(0), criteria |-> NoCriteria]

\* the `criteria` of the default scorecard's four categories
DefaultCriteria(key) ==
    CASE key = "technical_capability" ->
            [s \in {"solution_architecture", "security_compliance",
                    "performance_sla", "scalability"} |->
                CASE s = "solution_architecture" -> 10
                  [] s = "security_compliance" -> 10
                  [] s = "performance_sla" -> 9
                  [] s = "scalability" -> 6]
      [] key = "cost_effectiveness" ->
            [s \in {"total_cost_ownership", "pricing_model", "payment_terms"} |->
                CASE s = "total_cost_ownership" -> 10
                  [] s = "pricing_model" -> 9
                  [] s = "payment_terms" -> 6]
      [] key = "vendor_experience" ->
            [s \in {"company_experience", "project_references", "certifications"} |->
                CASE s = "company_experience" -> 8
                  [] s = "project_references" -> 7
                  [] s = "certifications" -> 5]
      [] key = "implementation_approach" ->
            [s \in {"implementation_methodology", "timeline", "project_management"} |->
                CASE s = "implementation_methodology" -> 8
                  [] s = "timeline" -> 7
                  [] s = "project_management" -> 5]

\* the scorecard built when the input is not JSON (lines 49-83)
DefaultScorecard ==
    [key \in CategorySet |-> Entry(Num(category_mapping(key)), DefaultCriteria(key))]

\* the scorecard returned by the except branch (lines 91-96)
MinimalScorecard ==
    [key \in CategorySet |-> Entry(Num(category_mapping(key)), NoCriteria)]

EmptyScorecard == [key \in {} |-> EmptyEntry]

----------------------------------------------------------------------------
(* normalize_scorecard_structure *)

\* name.lower().replace(" ", "_") on the criterion names of the model
LowerUnderscore(name) ==
    CASE name = "Technical Fit" -> "technical_fit"
      [] name = "Solution Cost" -> "solution_cost"
      [] name = "Cost" -> "cost"
      [] name = "Financial" -> "financial"
      [] name = "Vendor Experience" -> "vendor_experience"
      [] name = "Implementation Experience" -> "implementation_experience"
      [] name = "Implementation" -> "implementation"
      [] name = "Support" -> "support"
      [] OTHER -> name

\* the keywords w with `w in name` (substring test) for a normalized name
WordsIn(name) ==
    CASE name = "technical_fit" -> {"technical"}
      [] name = "solution_cost" -> {"solution", "cost"}
      [] name = "cost" -> {"cost"}
      [] name = "financial" -> {"financial"}
      [] name = "vendor_experience" -> {"vendor", "experience"}
      [] name = "implementation_experience" -> {"implementation", "experience"}
      [] name = "implementation" -> {"implementation"}
      [] OTHER -> {}

\* CriterionKey as it would be if the cost rule were tried before the
\* technical rule
CriterionKeyCostFirst(name) ==
    IF "cost" \in WordsIn(name) \/ "financial" \in WordsIn(name)
    THEN "cost_effectiveness"
    ELSE IF "technical" \in WordsIn(name) \/ "solution" \in WordsIn(name)
    THEN "technical_capability"
    ELSE IF "vendor" \in WordsIn(name) \/ "experience" \in WordsIn(name)
    THEN "vendor_experience"
    ELSE IF "implementation" \in WordsIn(name)
    THEN "implementation_approach"
    ELSE name

\* the if/elif chain of lines 114-123
CriterionKey(name) ==
    IF "technical" \in WordsIn(name) \/ "solution" \in WordsIn(name)
    THEN "technical_capability"
    ELSE IF "cost" \in WordsIn(name) \/ "financial" \in WordsIn(name)
    THEN "cost_effectiveness"
    ELSE IF "vendor" \in WordsIn(name) \/ "experience" \in WordsIn(name)
    THEN "vendor_experience"
    ELSE IF "implementation" \in WordsIn(name)
    THEN "implementation_approach"
    ELSE name

\* One element of a `criteria` list.  mapping = FALSE is an element that is not
\* a JSON object (criterion.get raises).  A criterion without "weight" gets 25.
Criterion(name, has_weight, weight) ==
    [mapping |-> TRUE, name |-> name, has_weight |-> has_weight, weight |-> weight]

BadCriterion ==
    [mapping |-> FALSE, name |-> "", has_weight |-> FALSE, weight |-> NonNumeric]

Raised(exc) == [raised |-> TRUE, exc |-> exc]
Returned(v) == [raised |-> FALSE, value |-> v]

\* normalized[key] = value, on a mapping keyed by strings
Put(normalized, key, value) ==
    [k \in (DOMAIN normalized) \cup {key} |->
        IF k = key THEN value ELSE normalized[k]]

\* the for loop of lines 110-128 over criteria[i..]
RECURSIVE NormalizeList(_, _, _)
NormalizeList(criteria, i, normalized) ==
    IF i > Len(criteria) THEN Returned(normalized)
    ELSE IF ~criteria[i].mapping THEN Raised("AttributeError")
    ELSE LET name == LowerUnderscore(criteria[i].name)
             weight == IF criteria[i].has_weight THEN criteria[i].weight ELSE Num(25)
         IN  NormalizeList(criteria, i + 1,
                 Put(normalized, CriterionKey(name), Entry(weight, NoCriteria)))

\* One value of a flat rubric mapping: kind "mapping" (with or without
\* "points"), "text" (non-mapping containing "points"), "scalar" (anything on
\* which `"points" not in value` or the item assignment raises).
FlatValue(kind, has_points, points) ==
    [kind |-> kind, has_points |-> has_points, points |-> points, criteria |-> NoCriteria]

\* the for loop of lines 138-144 over Categories[i..]
RECURSIVE NormalizeFlat(_, _, _)
NormalizeFlat(entries, i, normalized) ==
    IF i > 4 THEN Returned(normalized)
    ELSE LET key == Categories[i] IN
         IF key \in DOMAIN entries
         THEN IF entries[key].kind = "scalar" THEN Raised("TypeError")
              ELSE IF entries[key].kind = "mapping" /\ ~entries[key].has_points
              THEN NormalizeFlat(entries, i + 1,
                       Put(normalized, key,
                           Entry(Num(category_mapping(key)), entries[key].criteria)))
              ELSE NormalizeFlat(entries, i + 1, Put(normalized, key, entries[key]))
         ELSE NormalizeFlat(entries, i + 1,
                  Put(normalized, key, Entry(Num(category_mapping(key)), NoCriteria)))

\* A parsed JSON object.  wrapper: "none" (no "scorecard_template" key),
\* "mapping" (the key holds the rubric object), "null" (the key holds a value
\* on which `"criteria" in value` raises).  form: "list" when "criteria" is a
\* list, "flat" otherwise.
JsonRubric(wrapper, form, criteria, entries) ==
    [shape |-> "json", wrapper |-> wrapper, form |-> form,
     criteria |-> criteria, entries |-> entries]

normalize_scorecard_structure(scorecard_data) ==
    IF scorecard_data.wrapper = "null" THEN Raised("TypeError")
    ELSE IF scorecard_data.form = "list"
    THEN NormalizeList(scorecard_data.criteria, 1, EmptyScorecard)
    ELSE NormalizeFlat(scorecard_data.entries, 1, EmptyScorecard)

\* Rubric inputs that are not a JSON object: None ("none"), text that does not
\* start with "{" including "" ("text"), text that starts with "{" and is not
\* valid JSON ("badjson"), a non-string value such as a dict ("nonstr").
OtherRubric(shape) ==
    [shape |-> shape, wrapper |-> "none", form |-> "flat",
     criteria |-> <<>>, entries |-> EmptyScorecard]

parse_scorecard_from_llm(llm_output) ==
    IF llm_output.shape \in {"none", "nonstr"}
    THEN MinimalScorecard           \* .strip() / slicing raises, caught at line 88
    ELSE IF llm_output.shape = "json"
    THEN LET n == normalize_scorecard_structure(llm_output)
         IN  IF n.raised THEN MinimalScorecard ELSE n.value
    ELSE DefaultScorecard           \* "text", and "badjson" after line 42

----------------------------------------------------------------------------
(* Vendor payloads and parse_vendor_data_safely *)

\* One feature bucket of a vendor record: the key is missing ("absent"), holds
\* null ("null"), or holds a mapping with the given keys ("mapping").  `values`
\* is the mapping itself, feature key -> JSON value written as text.
Bucket(kind, keys) == [kind |-> kind, keys |-> keys, values |-> [k \in keys |-> "true"]]

\* the bucket that holds exactly the given mapping
FeatureBucket(values) == [kind |-> "mapping", keys |-> DOMAIN values, values |-> values]

NoBucket == Bucket("absent", {})
NullBucket == Bucket("null", {})

\* One element of the `vendors` list.  mapping = FALSE is an element that is
\* not a JSON object (vendor.get raises).
Vendor(name, technical, financial, experience, implementation) ==
    [mapping |-> TRUE, has_name |-> TRUE, vendor_name |-> name,
     technical_data |-> technical, financial_data |-> financial,
     vendor_data |-> experience, implementation_data |-> implementation]

BadVendor ==
    [mapping |-> FALSE, has_name |-> FALSE, vendor_name |-> "",
     technical_data |-> NoBucket, financial_data |-> NoBucket,
     vendor_data |-> NoBucket, implementation_data |-> NoBucket]

\* A parsed vendor payload: `status` is "absent" when the key is missing;
\* vendors_kind is "absent" (no key), "null" (a value without len()) or "list".
VendorData(status, vendors_kind, vendors) ==
    [status |-> status, message |-> "", vendors_kind |-> vendors_kind, vendors |-> vendors]

ErrorData(message) ==
    [status |-> "error", message |-> message, vendors_kind |-> "absent", vendors |-> <<>>]

MockFinancialKeys ==
    {"tco_3year", "cost_breakdown_provided", "transparent_pricing", "pricing_model",
     "payment_terms", "milestone_payments", "warranty_included"}

MockExperienceKeys ==
    {"years_in_business", "industry_expertise", "similar_projects", "references",
     "reference_quality", "recent_projects", "certifications", "relevant_certifications"}

MockImplementationKeys ==
    {"methodology", "detailed_methodology", "risk_management", "quality_assurance",
     "implementation_timeline", "realistic_timeline", "milestone_based", "dedicated_pm",
     "project_tracking", "regular_reporting", "stakeholder_management"}

MockTechnicalKeys ==
    {"architecture_provided", "scalable_design", "integration_capabilities",
     "technology_stack", "encryption_support", "compliance_framework",
     "certifications", "uptime_sla", "response_time", "performance_monitoring",
     "horizontal_scaling"}

\* the `vendors` of create_mock_vendor_data
MockVendors ==
    << Vendor("Cyberguard",
              Bucket("mapping", MockTechnicalKeys \cup
                                {"security_focused_architecture", "auto_scaling"}),
              Bucket("mapping", MockFinancialKeys \cup {"volume_discounts"}),
              Bucket("mapping", MockExperienceKeys),
              Bucket("mapping", MockImplementationKeys)),
       Vendor("SecureNet",
              Bucket("mapping", MockTechnicalKeys \cup
                                {"network_architecture", "vertical_scaling"}),
              Bucket("mapping", MockFinancialKeys \cup {"flexible_pricing"}),
              Bucket("mapping", MockExperienceKeys),
              Bucket("mapping", MockImplementationKeys)) >>

create_mock_vendor_data == VendorData("success", "list", MockVendors)

\* The payload handed to Sxoring_Engine.  shape: "empty" (None, "", any falsy
\* non-dict), "text" (text not starting with "{"), "badjson" (starts with "{",
\* invalid), "nonstr" (a truthy value that is neither text nor a dict),
\* "json" (text of a JSON object), "dict" (an already parsed mapping).
Payload(shape, data) == [shape |-> shape, data |-> data]

NoData == VendorData("absent", "absent", <<>>)

parse_vendor_data_safely(data_str) ==
    CASE data_str.shape = "dict" -> data_str.data
      [] data_str.shape = "empty" -> ErrorData("No vendor data provided")
      [] data_str.shape = "json" -> data_str.data
      [] data_str.shape = "text" -> create_mock_vendor_data
      [] data_str.shape = "badjson" -> ErrorData("Invalid JSON")
      [] data_str.shape = "nonstr" -> ErrorData("Parsing error")

----------------------------------------------------------------------------
(* Arithmetic *)

\* TruncDiv as it would be if round() were used in place of int()
NearestDiv(a, b) == (2 * a + b) \div (2 * b)

\* int(a / b) for b > 0: truncation toward zero
TruncDiv(a, b) == IF a >= 0 THEN a \div b ELSE -((-a) \div b)

\* round(n / d) for d > 0, ties to even
RoundHalfEven(n, d) ==
    LET q == n \div d
        r == n - q * d
    IN  IF 2 * r < d THEN q
        ELSE IF 2 * r > d THEN q + 1
        ELSE IF q % 2 = 0 THEN q ELSE q + 1

\* The rational n/d as a percentage, d made positive.  earned (hundredths of
\* a point) / possible (points) * 100 is the rational earned/possible.
Percent(n, d) == IF d < 0 THEN [n |-> -n, d |-> -d] ELSE [n |-> n, d |-> d]

ZeroPercent == [n |-> 0, d |-> 1]

\* p >= k for a percentage p and an integer k
PercentGE(p, k) == p.n >= k * p.d

----------------------------------------------------------------------------
(* The four category scorers *)

\* criteria.get('points', default)
PointsOf(criteria, default) ==
    IF criteria.has_points THEN criteria.points ELSE Num(default)

TechnicalSubCriteria ==
    <<"solution_architecture", "security_compliance", "performance_sla", "scalability">>

\* the fractions of lines 321-324, in percent
TechnicalShare(criterion_name) ==
    CASE criterion_name = "solution_architecture" -> 30
      [] criterion_name = "security_compliance" -> 30
      [] criterion_name = "performance_sla" -> 25
      [] criterion_name = "scalability" -> 15

\* the key list of lines 332-333
DetectorKeys ==
    {"architecture_provided", "scalable_design", "security_focused_architecture",
     "encryption_support", "uptime_sla", "horizontal_scaling"}

\* The keys whose presence counts for a sub-criterion at lines 331-334: its own
\* name and the shared key list.
DetectorSet(criterion_name) == {criterion_name} \cup DetectorKeys

\* HasSignal without the shared key list: only the sub-criterion's own name
HasOwnKey(criterion_name, keys) == criterion_name \in keys

\* the test of lines 331-334 on the keys of `data`
HasSignal(criterion_name, keys) ==
    criterion_name \in keys \/ (keys \cap DetectorKeys) # {}

\* TechnicalTier as it would be if the good tier needed more than one feature
TechnicalTierByCount(criterion_name, keys) ==
    IF HasSignal(criterion_name, keys) /\ Cardinality(keys) > 1 THEN 80 ELSE 30

\* the tier of lines 336 and 338, in percent of max_points
TechnicalTier(criterion_name, keys) ==
    IF HasSignal(criterion_name, keys) THEN 80 ELSE 30

SubScore(max_points, tier) ==
    [earned_points |-> max_points * tier,
     max_points |-> max_points,
     percentage |-> IF max_points > 0 THEN Percent(max_points * tier, max_points)
                    ELSE ZeroPercent]

SumEarned(scores) ==
    scores["solution_architecture"].earned_points
    + scores["security_compliance"].earned_points
    + scores["performance_sla"].earned_points
    + scores["scalability"].earned_points

\* criteria: the scorecard's value for the category (EmptyEntry when missing);
\* data: the vendor's bucket, where "absent" is the {} default of .get
calculate_technical_score(criteria, data) ==
    IF criteria.kind # "mapping" THEN Raised("AttributeError")
    ELSE LET p == PointsOf(criteria, 35) IN
    IF ~p.num THEN Raised("TypeError")
    ELSE IF data.kind = "null" THEN Raised("TypeError")
    ELSE LET total_possible == p.val
             technical_scores ==
                 [c \in {TechnicalSubCriteria[i] : i \in 1..4} |->
                     SubScore(TruncDiv(total_possible * TechnicalShare(c), 100),
                              TechnicalTier(c, data.keys))]
             total_earned == SumEarned(technical_scores)
         IN  Returned([category_scores |-> technical_scores,
                       total_earned |-> total_earned,
                       total_possible |-> total_possible,
                       category_percentage |->
                           IF total_possible > 0
                           THEN Percent(total_earned, total_possible)
                           ELSE ZeroPercent])

\* the common body of the three fixed-proportion scorers: `share` is the
\* proportion in percent, `default` the default of criteria.get('points', _)
FixedShareScore(criteria, default, share) ==
    IF criteria.kind # "mapping" THEN Raised("AttributeError")
    ELSE LET p == PointsOf(criteria, default) IN
    IF ~p.num THEN Raised("TypeError")
    ELSE IF p.val = 0 THEN Raised("ZeroDivisionError")
    ELSE Returned([category_scores |-> NoCriteria,
                   total_earned |-> p.val * share,
                   total_possible |-> p.val,
                   category_percentage |-> Percent(p.val * share, p.val)])

\* calculate_financial_score as it would be if it looked at the bucket
calculate_financial_score_by_features(criteria, data) ==
    FixedShareScore(criteria, 25, IF data.keys = {} THEN 30 ELSE 70)

calculate_financial_score(criteria, data) == FixedShareScore(criteria, 25, 70)

calculate_vendor_experience_score(criteria, data) == FixedShareScore(criteria, 20, 75)

\* calculate_implementation_score as it would be if it awarded every point
calculate_implementation_score_in_full(criteria, data) ==
    FixedShareScore(criteria, 20, 100)

calculate_implementation_score(criteria, data) == FixedShareScore(criteria, 20, 80)

----------------------------------------------------------------------------
(* score_single_vendor *)

\* scorecard.get(key, {})
Fragment(card, key) == IF key \in DOMAIN card THEN card[key] ELSE EmptyEntry

\* vendor.get('vendor_name', 'Unknown')
VendorName(vendor) == IF vendor.has_name THEN vendor.vendor_name ELSE "Unknown"

\* the record of the except branch (lines 451-459)
ErrorScore(vendor_name, exc) ==
    [vendor_name |-> vendor_name, status |-> "error", message |-> exc,
     total_score |-> 0, total_possible |-> 100, overall_percentage |-> 0,
     grade |-> "F"]

\* line 431, on the unrounded percentage
GradeOf(overall_percentage) ==
    IF PercentGE(overall_percentage, 90) THEN "A"
    ELSE IF PercentGE(overall_percentage, 80) THEN "B"
    ELSE "C"

\* SuccessScore as it would be if total_score were rounded to whole points
SuccessScoreWholePoints(vendor_name, technical, financial, experience, implementation) ==
    LET total_earned == technical.total_earned + financial.total_earned
                        + experience.total_earned + implementation.total_earned
        total_possible == technical.total_possible + financial.total_possible
                          + experience.total_possible + implementation.total_possible
        overall_percentage == IF total_possible > 0
                              THEN Percent(total_earned, total_possible)
                              ELSE ZeroPercent
    IN  [vendor_name |-> vendor_name, status |-> "success",
         total_score |-> RoundHalfEven(total_earned, 100) * 100,
         total_possible |-> total_possible,
         overall_percentage |->
             RoundHalfEven(overall_percentage.n * 100, overall_percentage.d),
         grade |-> GradeOf(overall_percentage),
         category_breakdown |->
             [technical_capability |-> technical,
              cost_effectiveness |-> financial,
              vendor_experience |-> experience,
              implementation_approach |-> implementation]]

\* the record of lines 433-448; total_score in hundredths of a point,
\* overall_percentage in hundredths of a percent (both rounded to 2 places)
SuccessScore(vendor_name, technical, financial, experience, implementation) ==
    LET total_earned == technical.total_earned + financial.total_earned
                        + experience.total_earned + implementation.total_earned
        total_possible == technical.total_possible + financial.total_possible
                          + experience.total_possible + implementation.total_possible
        overall_percentage == IF total_possible > 0
                              THEN Percent(total_earned, total_possible)
                              ELSE ZeroPercent
    IN  [vendor_name |-> vendor_name, status |-> "success",
         total_score |-> total_earned,
         total_possible |-> total_possible,
         overall_percentage |->
             RoundHalfEven(overall_percentage.n * 100, overall_percentage.d),
         grade |-> GradeOf(overall_percentage),
         category_breakdown |->
             [technical_capability |-> technical,
              cost_effectiveness |-> financial,
              vendor_experience |-> experience,
              implementation_approach |-> implementation]]

\* vendor is a mapping (vendor.get at lines 392 and 489 did not raise)
score_single_vendor(vendor, card) ==
    LET technical == calculate_technical_score(
                         Fragment(card, "technical_capability"), vendor.technical_data)
        financial == calculate_financial_score(
                         Fragment(card, "cost_effectiveness"), vendor.financial_data)
        experience == calculate_vendor_experience_score(
                          Fragment(card, "vendor_experience"), vendor.vendor_data)
        implementation == calculate_implementation_score(
                              Fragment(card, "implementation_approach"),
                              vendor.implementation_data)
    IN  IF technical.raised THEN ErrorScore(VendorName(vendor), technical.exc)
        ELSE IF financial.raised THEN ErrorScore(VendorName(vendor), financial.exc)
        ELSE IF experience.raised THEN ErrorScore(VendorName(vendor), experience.exc)
        ELSE IF implementation.raised
        THEN ErrorScore(VendorName(vendor), implementation.exc)
        ELSE SuccessScore(VendorName(vendor), technical.value, financial.value,
                          experience.value, implementation.value)

----------------------------------------------------------------------------
(* Ranking and the returned report *)

\* [v for v in vendor_scores if v.get('status') == 'success']
SuccessfulScores(scores) == SelectSeq(scores, LAMBDA v : v.status = "success")

\* InsertDescending as an unstable sort would do it: x placed before the
\* elements that tie with it
RECURSIVE InsertDescendingTiesFirst(_, _)
InsertDescendingTiesFirst(sorted, x) ==
    IF sorted = <<>> THEN <<x>>
    ELSE IF Head(sorted).total_score > x.total_score
    THEN <<Head(sorted)>> \o InsertDescendingTiesFirst(Tail(sorted), x)
    ELSE <<x>> \o sorted

\* x placed behind every element whose total_score is >= its own
RECURSIVE InsertDescending(_, _)
InsertDescending(sorted, x) ==
    IF sorted = <<>> THEN <<x>>
    ELSE IF Head(sorted).total_score >= x.total_score
    THEN <<Head(sorted)>> \o InsertDescending(Tail(sorted), x)
    ELSE <<x>> \o sorted

\* list.sort(key=total_score, reverse=True): descending, and stable
RECURSIVE SortDescending(_)
SortDescending(scores) ==
    IF scores = <<>> THEN <<>>
    ELSE InsertDescending(SortDescending(SubSeq(scores, 1, Len(scores) - 1)),
                          scores[Len(scores)])

\* sum(cat.get('points', 0) for cat in scorecard.values()) raises on a value
\* that is not a mapping and on points that are not a number
PointsSummable(card) ==
    \A k \in DOMAIN card : card[k].kind = "mapping" /\ PointsOf(card[k], 0).num

RECURSIVE SumPoints(_, _)
SumPoints(card, keys) ==
    IF keys = {} THEN 0
    ELSE LET k == CHOOSE x \in keys : TRUE
         IN  PointsOf(card[k], 0).val + SumPoints(card, keys \ {k})

\* the return value of lines 470-474
EmptyScorecardResult ==
    [status |-> "error",
     message |-> "Failed to parse scorecard template from Scorecard_Builder"]

\* CriticalError as it would be if the exception left Sxoring_Engine
Escaped(exc) ==
    [status |-> "raised", message |-> "", exc |-> exc, vendor_scores |-> <<>>]

\* the return value of lines 534-539
CriticalError(exc) ==
    [status |-> "error", message |-> "Complete evaluation failed",
     exc |-> exc, vendor_scores |-> <<>>]

\* Assessment as it would be if the ranked list of the successful entries
\* were returned as vendor_scores
AssessmentRanked(card, scores) ==
    LET successful_scores == SortDescending(SuccessfulScores(scores))
        has_winner == successful_scores # <<>>
        winner == successful_scores[1]
    IN  [status |-> "success",
         vendor_scores |-> successful_scores,
         comprehensive_assessment |->
             [executive_summary |->
                 [recommended_vendor |->
                      IF has_winner THEN winner.vendor_name ELSE "No winner",
                  winning_score |-> IF has_winner THEN winner.total_score ELSE 0,
                  winning_percentage |->
                      IF has_winner THEN winner.overall_percentage ELSE 0,
                  confidence_level |->
                      IF has_winner /\ winner.overall_percentage >= 8000
                      THEN "High" ELSE "Medium"]],
         scorecard_analysis |->
             [scorecard_structure |-> card,
              total_possible_points |-> SumPoints(card, DOMAIN card)],
         evaluation_metadata |->
             [evaluation_complete |-> TRUE,
              vendors_evaluated |-> Len(successful_scores),
              winner |-> IF has_winner THEN winner.vendor_name ELSE "None"]]

\* lines 498-527, before the return
Assessment(card, scores) ==
    LET successful_scores == SortDescending(SuccessfulScores(scores))
        has_winner == successful_scores # <<>>
        winner == successful_scores[1]
    IN  [status |-> "success",
         vendor_scores |-> scores,
         comprehensive_assessment |->
             [executive_summary |->
                 [recommended_vendor |->
                      IF has_winner THEN winner.vendor_name ELSE "No winner",
                  winning_score |-> IF has_winner THEN winner.total_score ELSE 0,
                  winning_percentage |->
                      IF has_winner THEN winner.overall_percentage ELSE 0,
                  confidence_level |->
                      IF has_winner /\ winner.overall_percentage >= 8000
                      THEN "High" ELSE "Medium"]],
         scorecard_analysis |->
             [scorecard_structure |-> card,
              total_possible_points |-> SumPoints(card, DOMAIN card)],
         evaluation_metadata |->
             [evaluation_complete |-> TRUE,
              vendors_evaluated |-> Len(successful_scores),
              winner |-> IF has_winner THEN winner.vendor_name ELSE "None"]]

----------------------------------------------------------------------------
(* The inputs of the model *)

VendorNames == <<"Alpha", "Beta", "Gamma", "Delta">>

RubricShapes == {"none", "text", "badjson", "nonstr"}

CriterionChoices ==
    { Criterion("Technical Fit", TRUE, Num(40)),
      Criterion("Solution Cost", TRUE, Num(30)),
      Criterion("Cost", TRUE, Num(0)),
      Criterion("Vendor Experience", FALSE, Num(0)),
      Criterion("Implementation", TRUE, NonNumeric),
      Criterion("Implementation Experience", TRUE, Num(10)),
      Criterion("Support", TRUE, Num(20)),
      BadCriterion }

CriteriaLists ==
    UNION { [1..n -> CriterionChoices] : n \in 0..MaxCriteria }

Absent == FlatValue("absent", FALSE, NonNumeric)

FlatChoices(key) ==
    CASE key = "technical_capability" ->
            { Absent, FlatValue("mapping", FALSE, NonNumeric),
              FlatValue("mapping", TRUE, Num(40)), FlatValue("mapping", TRUE, Num(0)),
              FlatValue("mapping", TRUE, Num(-10)),
              FlatValue("mapping", TRUE, NonNumeric),
              FlatValue("text", FALSE, NonNumeric),
              FlatValue("scalar", FALSE, NonNumeric) }
      [] key = "cost_effectiveness" ->
            { Absent, FlatValue("mapping", TRUE, Num(30)),
              FlatValue("mapping", TRUE, Num(0)), FlatValue("mapping", TRUE, Num(-10)) }
      [] key = "vendor_experience" ->
            { Absent, FlatValue("mapping", TRUE, Num(15)) }
      [] key = "implementation_approach" ->
            { Absent, FlatValue("mapping", TRUE, Num(15)),
              FlatValue("mapping", TRUE, Num(0)) }

\* the mapping that holds the chosen values under their keys
FlatEntries(technical, cost, experience, implementation) ==
    LET choice == [key \in CategorySet |->
                      CASE key = "technical_capability" -> technical
                        [] key = "cost_effectiveness" -> cost
                        [] key = "vendor_experience" -> experience
                        [] key = "implementation_approach" -> implementation]
    IN  [key \in {k \in CategorySet : choice[k].kind # "absent"} |-> choice[key]]

FlatMappings ==
    { FlatEntries(t, c, e, i) :
        t \in FlatChoices("technical_capability"),
        c \in FlatChoices("cost_effectiveness"),
        e \in FlatChoices("vendor_experience"),
        i \in FlatChoices("implementation_approach") }

\* Scenario A of the specification: 40 / 30 / 15 / 15
ScenarioA ==
    FlatEntries(FlatValue("mapping", TRUE, Num(40)), FlatValue("mapping", TRUE, Num(30)),
                FlatValue("mapping", TRUE, Num(15)), FlatValue("mapping", TRUE, Num(15)))

\* a rubric of positive integers whose unrounded overall percentage lies
\* between 79.995 and 80 for a vendor with a technical signal
NearEighty ==
    FlatEntries(FlatValue("mapping", TRUE, Num(40)), FlatValue("mapping", TRUE, Num(1)),
                FlatValue("mapping", TRUE, Num(1)), FlatValue("mapping", TRUE, Num(3000)))

RubricInputs ==
    { OtherRubric(shape) : shape \in RubricShapes }
    \cup { JsonRubric("none", "list", criteria, EmptyScorecard) : criteria \in CriteriaLists }
    \cup { JsonRubric("none", "flat", <<>>, entries) : entries \in FlatMappings }
    \cup { JsonRubric("mapping", "list", criteria, EmptyScorecard) :
             criteria \in {c \in CriteriaLists : Len(c) <= 1} }
    \cup { JsonRubric("mapping", "flat", <<>>, ScenarioA),
           JsonRubric("none", "flat", <<>>, NearEighty),
           JsonRubric("null", "flat", <<>>, EmptyScorecard) }

\* the vendor records a payload may hold at a given position of its list
VendorChoices(name) ==
    { Vendor(name, Bucket("mapping", {}), Bucket("mapping", {}),
             Bucket("mapping", {}), Bucket("mapping", {})),
      Vendor(name, FeatureBucket([k \in {"uptime_sla"} |-> "99.9%"]),
             Bucket("mapping", {"tco_3year"}),
             Bucket("mapping", {"references"}), Bucket("mapping", {"methodology"})),
      Vendor(name, FeatureBucket([k \in {"scalability", "response_time"} |->
                                     IF k = "scalability" THEN "false" ELSE "N/A"]),
             NoBucket, NoBucket, NoBucket),
      Vendor(name, NoBucket, NullBucket, NullBucket, NullBucket),
      Vendor(name, NullBucket, NoBucket, NoBucket, NoBucket),
      BadVendor }

VendorLists ==
    UNION { { vs \in [1..n -> UNION {VendorChoices(VendorNames[i]) : i \in 1..n}] :
                \A i \in 1..n : vs[i] \in VendorChoices(VendorNames[i]) } :
            n \in 0..MaxVendors }

Payloads ==
    { Payload(shape, NoData) : shape \in {"empty", "text", "badjson", "nonstr", "dict"} }
    \cup { Payload("json", VendorData("absent", "list", vs)) : vs \in VendorLists }
    \cup { Payload("dict", VendorData("success", "list", MockVendors)),
           Payload("json", VendorData("error", "list",
                      <<Vendor("Alpha", Bucket("mapping", {"uptime_sla"}),
                               NoBucket, NoBucket, NoBucket)>>)),
           Payload("json", VendorData("success", "null", <<>>)) }

----------------------------------------------------------------------------
(* The body of Sxoring_Engine (lines 462-539), one action per step *)

NoResult == [status |-> "none"]

Init ==
    /\ scorecard_template \in RubricInputs
    /\ extracted_data \in Payloads
    /\ pc = "start"
    /\ scorecard = EmptyScorecard
    /\ vendor_data = NoData
    /\ vendors_list = <<>>
    /\ vendor_scores = <<>>
    /\ mock_used = FALSE
    /\ result = NoResult
    /\ run = 1
    /\ first_result = NoResult

\* lines 466-467
ParseInputs ==
    /\ pc = "start"
    /\ scorecard' = parse_scorecard_from_llm(scorecard_template)
    /\ vendor_data' = parse_vendor_data_safely(extracted_data)
    /\ mock_used' = (extracted_data.shape = "text")
    /\ pc' = "parsed"
    /\ UNCHANGED <<scorecard_template, extracted_data, vendors_list, vendor_scores,
                   result, run, first_result>>

\* lines 469-474: `if not scorecard` returns the error
RejectEmptyScorecard ==
    /\ pc = "parsed"
    /\ DOMAIN scorecard = {}
    /\ result' = EmptyScorecardResult
    /\ pc' = "done"
    /\ UNCHANGED <<scorecard_template, extracted_data, scorecard, vendor_data,
                   vendors_list, vendor_scores, mock_used, run, first_result>>

\* LoadVendors as it would be if the vendors were kept in a list that outlives
\* the call
LoadVendorsAccumulating ==
    /\ pc = "parsed"
    /\ DOMAIN scorecard # {}
    /\ LET data == IF vendor_data.status = "error"
                   THEN create_mock_vendor_data ELSE vendor_data
       IN  /\ vendor_data' = data
           /\ mock_used' = (mock_used \/ vendor_data.status = "error")
           /\ vendors_list' = vendors_list \o data.vendors
           /\ vendor_scores' = <<>>
           /\ pc' = "scoring"
           /\ UNCHANGED result
    /\ UNCHANGED <<scorecard_template, extracted_data, scorecard, run, first_result>>

\* lines 478-487: the mock replaces a payload of status "error"; then the
\* vendors are read, len(vendors_list) needs a value with a length, and
\* vendor_scores starts as the empty list
LoadVendors ==
    /\ pc = "parsed"
    /\ DOMAIN scorecard # {}
    /\ LET data == IF vendor_data.status = "error"
                   THEN create_mock_vendor_data ELSE vendor_data
       IN  /\ vendor_data' = data
           /\ mock_used' = (mock_used \/ vendor_data.status = "error")
           /\ IF data.vendors_kind = "null"
              THEN /\ result' = CriticalError("TypeError")
                   /\ pc' = "done"
                   /\ UNCHANGED <<vendors_list, vendor_scores>>
              ELSE /\ vendors_list' = IF data.vendors_kind = "list"
                                      THEN data.vendors ELSE <<>>
                   /\ vendor_scores' = <<>>
                   /\ pc' = "scoring"
                   /\ UNCHANGED result
    /\ UNCHANGED <<scorecard_template, extracted_data, scorecard, run, first_result>>

\* ScoreVendor as it would be if the technical features seen so far were kept
\* in one mapping shared by the iterations of the loop
ScoreVendorSharingData ==
    /\ pc = "scoring"
    /\ Len(vendor_scores) < Len(vendors_list)
    /\ LET n == Len(vendor_scores)
           vendor == vendors_list[n + 1]
           seen == UNION { vendors_list[j].technical_data.keys : j \in 1..n }
           shared == [vendor EXCEPT !.technical_data.keys = @ \cup seen]
       IN  IF vendor.mapping
           THEN /\ vendor_scores' = Append(vendor_scores,
                                           score_single_vendor(shared, scorecard))
                /\ UNCHANGED <<pc, result>>
           ELSE /\ result' = CriticalError("AttributeError")
                /\ pc' = "done"
                /\ UNCHANGED vendor_scores
    /\ UNCHANGED <<scorecard_template, extracted_data, scorecard, vendor_data,
                   vendors_list, mock_used, run, first_result>>

\* lines 488-493: one iteration of the loop; vendor.get raises on an element
\* that is not a mapping, outside the try of score_single_vendor
ScoreVendor ==
    /\ pc = "scoring"
    /\ Len(vendor_scores) < Len(vendors_list)
    /\ LET vendor == vendors_list[Len(vendor_scores) + 1]
       IN  IF vendor.mapping
           THEN /\ vendor_scores' = Append(vendor_scores,
                                           score_single_vendor(vendor, scorecard))
                /\ UNCHANGED <<pc, result>>
           ELSE /\ result' = CriticalError("AttributeError")
                /\ pc' = "done"
                /\ UNCHANGED vendor_scores
    /\ UNCHANGED <<scorecard_template, extracted_data, scorecard, vendor_data,
                   vendors_list, mock_used, run, first_result>>

\* lines 498-530, and the except of line 532 when the sum of line 520 raises
RankAndReport ==
    /\ pc = "scoring"
    /\ Len(vendor_scores) = Len(vendors_list)
    /\ result' = IF PointsSummable(scorecard)
                 THEN Assessment(scorecard, vendor_scores)
                 ELSE CriticalError("TypeError")
    /\ pc' = "done"
    /\ UNCHANGED <<scorecard_template, extracted_data, scorecard, vendor_data,
                   vendors_list, vendor_scores, mock_used, run, first_result>>

\* The caller keeps the returned value and calls Sxoring_Engine again with the
\* same two arguments.  Nothing of the first call is reset here: each local is
\* set by the statement of the body that assigns it (466, 467, 483, 487).
CallAgain ==
    /\ pc = "done"
    /\ run < MaxRuns
    /\ run' = run + 1
    /\ first_result' = IF run = 1 THEN result ELSE first_result
    /\ result' = NoResult
    /\ pc' = "start"
    /\ UNCHANGED <<scorecard_template, extracted_data, scorecard, vendor_data,
                   vendors_list, vendor_scores, mock_used>>

Next ==
    \/ ParseInputs
    \/ RejectEmptyScorecard
    \/ LoadVendors
    \/ ScoreVendor
    \/ RankAndReport

\* one call of Sxoring_Engine
Spec == Init /\ [][Next]_vars

NextWithCallAgain ==
    \/ ParseInputs
    \/ RejectEmptyScorecard
    \/ LoadVendors
    \/ ScoreVendor
    \/ RankAndReport
    \/ CallAgain

\* up to MaxRuns calls of Sxoring_Engine on the same pair of inputs
SpecCallAgain == Init /\ [][NextWithCallAgain]_vars

----------------------------------------------------------------------------
(* Sxoring_Engine as a function of its two arguments: the value a complete  *)
(* run returns.  Used to compare a run with the run on another input.       *)

\* the loop of lines 488-493 over vendors[i..]
RECURSIVE ScoreAll(_, _, _, _)
ScoreAll(vendors, i, card, scores) ==
    IF i > Len(vendors) THEN Returned(scores)
    ELSE IF ~vendors[i].mapping THEN Raised("AttributeError")
    ELSE ScoreAll(vendors, i + 1, card,
                  Append(scores, score_single_vendor(vendors[i], card)))

Sxoring_Engine(template, data) ==
    LET card == parse_scorecard_from_llm(template)
        parsed == parse_vendor_data_safely(data)
        loaded == IF parsed.status = "error" THEN create_mock_vendor_data ELSE parsed
        scored == ScoreAll(IF loaded.vendors_kind = "list" THEN loaded.vendors ELSE <<>>,
                           1, card, <<>>)
    IN  IF DOMAIN card = {} THEN EmptyScorecardResult
        ELSE IF loaded.vendors_kind = "null" THEN CriticalError("TypeError")
        ELSE IF scored.raised THEN CriticalError(scored.exc)
        ELSE IF ~PointsSummable(card) THEN CriticalError("TypeError")
        ELSE Assessment(card, scored.value)

\* the stepwise run returns what the function returns
StepsAgreeWithFunction ==
    pc = "done" => result = Sxoring_Engine(scorecard_template, extracted_data)

----------------------------------------------------------------------------
(* Vocabulary of the claims *)

Done == pc = "done"

\* the run got as far as the scoring loop with a list of vendor records
VendorsAreRecords ==
    /\ Done
    /\ result # EmptyScorecardResult
    /\ vendor_data.vendors_kind # "null"
    /\ \A i \in 1..Len(vendors_list) : vendors_list[i].mapping

\* scoring this vendor raises inside score_single_vendor
ScoringRaises(vendor) == score_single_vendor(vendor, scorecard).status = "error"

\* s without its i-th element
Without(s, i) == SubSeq(s, 1, i - 1) \o SubSeq(s, i + 1, Len(s))

\* the index of the j-th element of s in Without(s, i)
Shifted(j, i) == IF j < i THEN j ELSE j - 1

\* the rubric input is not interpretable as a rubric object at all
RubricUninterpretable == scorecard_template.shape \in RubricShapes

HasDefaultPoints(card) ==
    /\ DOMAIN card = CategorySet
    /\ \A k \in CategorySet : card[k] = Entry(Num(category_mapping(k)), card[k].criteria)

----------------------------------------------------------------------------
(* C1 *)

\* C1 (as claimed): for every vendor list and rubric, if scoring one vendor
\* raises, that vendor's entry in vendor_scores has status "error", grade "F",
\* total_score 0 and a message, every other vendor's VendorScore is what the
\* run without the failing vendor gives it, and the run completes.
C1_PerVendorIsolation ==
    VendorsAreRecords =>
        \A i \in 1..Len(vendors_list) :
            ScoringRaises(vendors_list[i]) =>
                /\ result.status = "success"
                /\ Len(result.vendor_scores) = Len(vendors_list)
                /\ result.vendor_scores[i].status = "error"
                /\ result.vendor_scores[i].grade = "F"
                /\ result.vendor_scores[i].total_score = 0
                /\ result.vendor_scores[i].message # ""
                /\ LET rest == ScoreAll(Without(vendors_list, i), 1, scorecard, <<>>)
                   IN  \A j \in 1..Len(vendors_list) :
                           j # i => result.vendor_scores[j] = rest.value[Shifted(j, i)]

----------------------------------------------------------------------------
(* C2 *)

\* C2 (as claimed): whenever no vendor of the run ends with status "success"
\* (all failed, or the list is empty) the run-level status is "error" with a
\* message, and a reported winner is the "no winner" sentinel; run-level
\* "success" implies at least one successfully scored vendor.
C2_TotalFailureSurfaced ==
    Done =>
        /\ SuccessfulScores(vendor_scores) = <<>> =>
              /\ result.status = "error"
              /\ result.message # ""
        /\ result.status = "success" =>
              \E i \in 1..Len(result.vendor_scores) :
                  result.vendor_scores[i].status = "success"

----------------------------------------------------------------------------
(* C3 *)

\* the payload gives the run no reason to fail: after the mock substitution
\* its vendors are a list of records
PayloadIsSound ==
    LET parsed == parse_vendor_data_safely(extracted_data)
        loaded == IF parsed.status = "error" THEN create_mock_vendor_data ELSE parsed
    IN  /\ loaded.vendors_kind # "null"
        /\ \A i \in 1..Len(loaded.vendors) : loaded.vendors[i].mapping

\* C3 (as claimed): whatever the rubric input (None, empty, non-JSON text,
\* invalid JSON, a JSON object of any shape, an empty `criteria` list), the run
\* scores the vendors and returns no run-level error caused by the rubric; an
\* uninterpretable rubric yields the default 35/25/20/20 rubric.
C3_RubricNeverBlocks ==
    Done /\ PayloadIsSound =>
        /\ result.status = "success"
        /\ Len(result.vendor_scores) = Len(vendor_data.vendors)
        /\ RubricUninterpretable => HasDefaultPoints(scorecard)

----------------------------------------------------------------------------
(* C4 *)

\* a real payload that happens to equal the reference dataset
ReferencePayload == Payload("dict", create_mock_vendor_data)

\* C4 (as claimed): whenever the reference dataset is scored instead of the
\* caller's payload, the returned result carries a mark of the substitution,
\* so it differs from the result of a run on a real payload equal to the
\* reference dataset.
C4_FallbackFlagged ==
    Done /\ mock_used /\ result.status = "success" =>
        result # Sxoring_Engine(scorecard_template, ReferencePayload)

----------------------------------------------------------------------------
(* C5 *)

\* the positions of the successful entries with the highest total_score
BestPositions(scores) ==
    { i \in 1..Len(scores) :
        /\ scores[i].status = "success"
        /\ \A j \in 1..Len(scores) :
               scores[j].status = "success" => scores[j].total_score <= scores[i].total_score }

Least(S) == CHOOSE i \in S : \A j \in S : i <= j

\* C5: in every completed run with a successful vendor, the winner is the
\* successful vendor with the highest total_score, and among several with
\* that score the one that comes first in the input vendor list.
C5_WinnerIsFirstBest ==
    Done /\ result.status = "success" /\ BestPositions(result.vendor_scores) # {} =>
        LET first == result.vendor_scores[Least(BestPositions(result.vendor_scores))]
            summary == result.comprehensive_assessment.executive_summary
        IN  /\ first.vendor_name = vendors_list[Least(BestPositions(result.vendor_scores))].vendor_name
            /\ summary.recommended_vendor = first.vendor_name
            /\ summary.winning_score = first.total_score
            /\ summary.winning_percentage = first.overall_percentage
            /\ result.evaluation_metadata.winner = first.vendor_name

\* C5 witness: two successful vendors tie and the first of the list wins
C5_Witness ==
    /\ Done
    /\ result.status = "success"
    /\ Len(result.vendor_scores) = 2
    /\ BestPositions(result.vendor_scores) = {1, 2}
    /\ result.vendor_scores[1].vendor_name # result.vendor_scores[2].vendor_name
    /\ result.comprehensive_assessment.executive_summary.recommended_vendor
           = result.vendor_scores[1].vendor_name

----------------------------------------------------------------------------
(* C6 *)

RECURSIVE SumWeights(_, _)
SumWeights(criteria, i) ==
    IF i > Len(criteria) THEN 0
    ELSE (IF criteria[i].has_weight THEN criteria[i].weight.val ELSE 0)
         + SumWeights(criteria, i + 1)

RECURSIVE SumEntryPoints(_, _)
SumEntryPoints(entries, keys) ==
    IF keys = {} THEN 0
    ELSE LET k == CHOOSE x \in keys : TRUE
         IN  (IF entries[k].has_points THEN entries[k].points.val ELSE 0)
             + SumEntryPoints(entries, keys \ {k})

\* the rubric input is a JSON object that normalize_scorecard_structure accepts
RubricParses(template) ==
    template.shape = "json" /\ ~normalize_scorecard_structure(template).raised

\* the input supplies at least one explicit weight
SuppliesWeights(template) ==
    IF template.form = "list"
    THEN \E i \in 1..Len(template.criteria) : template.criteria[i].has_weight
    ELSE \E k \in DOMAIN template.entries : template.entries[k].has_points

\* the sum of the explicit weights of the input
SuppliedTotal(template) ==
    IF template.form = "list" THEN SumWeights(template.criteria, 1)
    ELSE SumEntryPoints(template.entries, DOMAIN template.entries)

\* every value of the input and of the normalized rubric is a mapping with
\* numeric weights, so that the sums are defined
WeightsAreNumbers(template, card) ==
    /\ \A i \in 1..Len(template.criteria) :
           template.criteria[i].mapping => template.criteria[i].weight.num
    /\ \A k \in DOMAIN template.entries :
           template.entries[k].kind = "mapping"
           /\ (template.entries[k].has_points => template.entries[k].points.num)
    /\ PointsSummable(card)

\* the sum of `points` over the canonical categories the rubric holds
FourCategoryPoints(card) == SumPoints(card, CategorySet \cap DOMAIN card)

\* C6 (as claimed): for every rubric input the points of the four canonical
\* categories of the normalized rubric sum to the sum of the explicit weights
\* the input supplied, and to 100 when it supplied none or was unparseable;
\* also when only some categories are supplied or several entries map to one.
C6_PointSum ==
    pc # "start" /\ WeightsAreNumbers(scorecard_template, scorecard) =>
        FourCategoryPoints(scorecard) =
            IF RubricParses(scorecard_template) /\ SuppliesWeights(scorecard_template)
            THEN SuppliedTotal(scorecard_template)
            ELSE 100

----------------------------------------------------------------------------
(* C7, C8, C9 *)

\* the rubric gives each scorer a mapping with a numeric `points`
RubricIsTyped(card) ==
    \A k \in CategorySet :
        Fragment(card, k).kind = "mapping" /\ PointsOf(Fragment(card, k), 0).num

\* no category of the rubric has negative points
PointsNonNegative(card) ==
    \A k \in CategorySet : PointsOf(Fragment(card, k), 0).val >= 0

\* C7 (as claimed): no scorer raises on a total_possible of 0; it returns a
\* CategoryScoreResult with category_percentage 0, and otherwise
\* category_percentage is total_earned / total_possible * 100.  Stated for the
\* vendors that nothing else makes fail: the rubric's points are numbers, none
\* negative, and technical_data is not null.
C7_NoDivisionFault ==
    \A i \in 1..Len(vendor_scores) :
        /\ RubricIsTyped(scorecard)
        /\ PointsNonNegative(scorecard)
        /\ vendors_list[i].technical_data.kind # "null"
        => /\ vendor_scores[i].status = "success"
           /\ \A k \in CategorySet :
                  LET r == vendor_scores[i].category_breakdown[k]
                  IN  r.category_percentage =
                          IF r.total_possible = 0 THEN ZeroPercent
                          ELSE Percent(r.total_earned, r.total_possible)

\* p <= k for a percentage p and an integer k
PercentLE(p, k) == p.n <= k * p.d

\* C8 (as claimed): every CategoryScoreResult, for any rubric the normalizer
\* can output and any vendor bucket, has 0 <= total_earned <= total_possible
\* and 0 <= category_percentage <= 100.
C8_CategoryBounds ==
    \A i \in 1..Len(vendor_scores) :
        vendor_scores[i].status = "success" =>
            \A k \in CategorySet :
                LET r == vendor_scores[i].category_breakdown[k]
                IN  /\ 0 <= r.total_earned
                    /\ r.total_earned <= 100 * r.total_possible
                    /\ PercentGE(r.category_percentage, 0)
                    /\ PercentLE(r.category_percentage, 100)

\* the bucket with a missing or null value read as "no features"
AsAbsent(bucket) == IF bucket.kind = "mapping" THEN bucket ELSE Bucket("mapping", {})

\* the vendor record with every missing or null bucket read as "no features"
WithAbsentFeatures(vendor) ==
    [vendor EXCEPT !.technical_data = AsAbsent(@), !.financial_data = AsAbsent(@),
                   !.vendor_data = AsAbsent(@), !.implementation_data = AsAbsent(@)]

\* C9 (as claimed): a vendor whose feature bucket is missing or null is scored
\* as if the features were absent: no scorer raises, the entry is not an
\* "error" entry, and its technical sub-criteria are at the 0.3 tier.
C9_NullMeansAbsent ==
    \A i \in 1..Len(vendor_scores) :
        vendor_scores[i] = score_single_vendor(WithAbsentFeatures(vendors_list[i]), scorecard)

----------------------------------------------------------------------------
(* C10 *)

\* the payload is not a structured list of vendor records
PayloadUninterpretable ==
    \/ extracted_data.shape \in {"empty", "text", "badjson", "nonstr"}
    \/ extracted_data.data.vendors_kind = "null"
    \/ \E i \in 1..Len(extracted_data.data.vendors) :
           ~extracted_data.data.vendors[i].mapping

\* C10 (as claimed): for every uninterpretable rubric and every
\* uninterpretable vendor payload the run recovers with the defaults or the
\* reference dataset and does not return run-level status "error".
C10_ShapeErrorsRecovered ==
    Done /\ RubricUninterpretable /\ PayloadUninterpretable =>
        result.status = "success"

----------------------------------------------------------------------------
(* C11 *)

\* C11 (as claimed): in every returned assessment confidence_level is "High"
\* exactly when there is a winner whose overall_percentage >= 80, and "Medium"
\* exactly when there is a winner whose overall_percentage < 80; without a
\* winner it is neither.
C11_ConfidenceLabel ==
    Done /\ result.status = "success" =>
        LET best == BestPositions(result.vendor_scores)
            has_winner == best # {}
            percentage == result.vendor_scores[Least(best)].overall_percentage
            level == result.comprehensive_assessment.executive_summary.confidence_level
        IN  /\ level = "High" <=> (has_winner /\ percentage >= 8000)
            /\ level = "Medium" <=> (has_winner /\ percentage < 8000)

----------------------------------------------------------------------------
(* C12 *)

\* C12 (as claimed): for every rubric input the rubric returned by
\* parse_scorecard_from_llm holds all four canonical categories, each with a
\* `points` value, also for a criteria list that names fewer than four.
C12_FourCategories ==
    pc # "start" =>
        /\ CategorySet \subseteq DOMAIN scorecard
        /\ \A k \in CategorySet \cap DOMAIN scorecard :
               scorecard[k].kind = "mapping" /\ scorecard[k].has_points

----------------------------------------------------------------------------
(* C13 *)

\* C13 (as claimed): every VendorScore of status "success" has grade "A" if
\* the overall_percentage it reports is >= 90, "B" if that is >= 80 and < 90,
\* and "C" otherwise; grade "F" occurs only with status "error".
C13_GradeThresholds ==
    \A i \in 1..Len(vendor_scores) :
        /\ vendor_scores[i].status = "success" =>
               vendor_scores[i].grade =
                   IF vendor_scores[i].overall_percentage >= 9000 THEN "A"
                   ELSE IF vendor_scores[i].overall_percentage >= 8000 THEN "B"
                   ELSE "C"
        /\ vendor_scores[i].grade = "F" => vendor_scores[i].status = "error"

----------------------------------------------------------------------------
(* C14 *)

\* the JSON values a feature may hold, written as text
FeatureValues == {"false", "N/A"}

\* the bucket with every value replaced by v
Revalued(bucket, v) == [bucket EXCEPT !.values = [k \in DOMAIN bucket.values |-> v]]

\* the technical CategoryScoreResult of the i-th scored vendor
TechnicalResult(i) == vendor_scores[i].category_breakdown["technical_capability"]

\* C14: for every scored vendor, each of the four technical sub-criteria earns
\* 0.8 * max_points if the technical bucket holds a key of that sub-criterion's
\* detector set and 0.3 * max_points if it holds none; a bucket holding only
\* uptime_sla gives the 0.8 tier to every sub-criterion whose detector set
\* includes uptime_sla; and the result is the same whatever values the keys
\* hold.
C14_TechnicalTiers ==
    \A i \in 1..Len(vendor_scores) :
        vendor_scores[i].status = "success" =>
            LET data == vendors_list[i].technical_data
                scores == TechnicalResult(i).category_scores
            IN  /\ DOMAIN scores = {TechnicalSubCriteria[n] : n \in 1..4}
                /\ \A c \in DOMAIN scores :
                       scores[c].earned_points =
                           scores[c].max_points *
                               (IF DOMAIN data.values \cap DetectorSet(c) # {}
                                THEN 80 ELSE 30)
                /\ DOMAIN data.values = {"uptime_sla"} =>
                       \A c \in DOMAIN scores :
                           "uptime_sla" \in DetectorSet(c) =>
                               scores[c].earned_points = scores[c].max_points * 80
                /\ \A v \in FeatureValues :
                       calculate_technical_score(
                           Fragment(scorecard, "technical_capability"),
                           Revalued(data, v)) = Returned(TechnicalResult(i))

\* C14 witness: a scored vendor whose technical bucket holds `scalability`
\* with the value false and no key of the shared list has scalability at the
\* 0.8 tier and the other sub-criteria at the 0.3 tier, with points to earn
C14_Witness ==
    \E i \in 1..Len(vendor_scores) :
        /\ vendor_scores[i].status = "success"
        /\ vendors_list[i].technical_data.kind = "mapping"
        /\ "scalability" \in DOMAIN vendors_list[i].technical_data.values
        /\ vendors_list[i].technical_data.values["scalability"] = "false"
        /\ \A c \in DOMAIN TechnicalResult(i).category_scores :
               /\ TechnicalResult(i).category_scores[c].max_points > 0
               /\ TechnicalResult(i).category_scores[c].earned_points =
                      TechnicalResult(i).category_scores[c].max_points
                      * (IF c = "scalability" THEN 80 ELSE 30)

----------------------------------------------------------------------------
(* C15 *)

\* the categories scored at a fixed proportion of their points
FixedShareCategories ==
    {"cost_effectiveness", "vendor_experience", "implementation_approach"}

\* the proportion of each, in percent
FixedShare(key) ==
    CASE key = "cost_effectiveness" -> 70
      [] key = "vendor_experience" -> 75
      [] key = "implementation_approach" -> 80

\* buckets a vendor record may hold in place of its own
OtherBuckets ==
    { NoBucket, NullBucket, Bucket("mapping", {}),
      FeatureBucket([k \in {"tco_3year", "references", "methodology"} |-> "N/A"]) }

\* the scorer of a category, applied to the rubric of the run and a bucket
ScoreCategory(key, bucket) ==
    CASE key = "cost_effectiveness" ->
            calculate_financial_score(Fragment(scorecard, key), bucket)
      [] key = "vendor_experience" ->
            calculate_vendor_experience_score(Fragment(scorecard, key), bucket)
      [] key = "implementation_approach" ->
            calculate_implementation_score(Fragment(scorecard, key), bucket)

\* C15: for a fixed rubric, the CategoryScoreResults a scored vendor has for
\* cost, vendor experience and implementation are the ones it would have with
\* any other financial_data, vendor_data or implementation_data (missing,
\* null, empty or holding other features), and their total_earned is 0.70,
\* 0.75 and 0.80 of the category's points.
C15_ValuesIgnored ==
    \A i \in 1..Len(vendor_scores) :
        vendor_scores[i].status = "success" =>
            \A k \in FixedShareCategories :
                /\ \A b \in OtherBuckets :
                       ScoreCategory(k, b) = Returned(vendor_scores[i].category_breakdown[k])
                /\ vendor_scores[i].category_breakdown[k].total_earned =
                       FixedShare(k) *
                       PointsOf(Fragment(scorecard, k), category_mapping(k)).val

\* C15 witness: two scored vendors of one run differ in financial_data only in
\* what the bucket holds, and earn the same 0.70 of the cost points
C15_Witness ==
    /\ Len(vendor_scores) = 2
    /\ vendor_scores[1].status = "success"
    /\ vendor_scores[2].status = "success"
    /\ vendors_list[1].financial_data.keys = {}
    /\ vendors_list[2].financial_data.keys # {}
    /\ vendor_scores[1].category_breakdown["cost_effectiveness"].total_earned > 0
    /\ vendor_scores[1].category_breakdown["cost_effectiveness"]
           = vendor_scores[2].category_breakdown["cost_effectiveness"]

----------------------------------------------------------------------------
(* C16 *)

\* the payload is empty, fails structured parsing, or carries status "error"
PayloadUnusable ==
    \/ extracted_data.shape \in {"empty", "text", "badjson", "nonstr"}
    \/ extracted_data.data.status = "error"

\* C16 (as claimed): for every vendor payload that is empty, fails structured
\* parsing or carries status "error", the run returns a complete assessment
\* over exactly the two reference vendors, Cyberguard then SecureNet, both of
\* status "success", with a winner and a confidence level.
C16_ReferenceAssessment ==
    Done /\ PayloadUnusable =>
        /\ result.status = "success"
        /\ Len(result.vendor_scores) = 2
        /\ result.vendor_scores[1].vendor_name = "Cyberguard"
        /\ result.vendor_scores[2].vendor_name = "SecureNet"
        /\ result.vendor_scores[1].status = "success"
        /\ result.vendor_scores[2].status = "success"
        /\ result.comprehensive_assessment.executive_summary.recommended_vendor
               \in {"Cyberguard", "SecureNet"}
        /\ result.comprehensive_assessment.executive_summary.confidence_level
               \in {"High", "Medium"}

----------------------------------------------------------------------------
(* C17 *)

FeatureBuckets(vendor) ==
    {vendor.technical_data, vendor.financial_data, vendor.vendor_data,
     vendor.implementation_data}

\* the record Multi_Vendor_Reader emits for a missing path or too little text
HasEmptyBuckets(vendor) ==
    \A b \in FeatureBuckets(vendor) : b.kind = "mapping" /\ b.keys = {}

HasFilledBuckets(vendor) ==
    \A b \in FeatureBuckets(vendor) : b.kind = "mapping" /\ b.keys # {}

\* C17 (as claimed): under a rubric of non-negative points, a vendor record
\* whose four feature buckets are empty is scored with status "success", and
\* its total_score is never higher than that of a record with non-empty
\* buckets scored under the same rubric.
C17_ConservativeScore ==
    \A i \in 1..Len(vendor_scores) :
        /\ HasEmptyBuckets(vendors_list[i])
        /\ RubricIsTyped(scorecard)
        /\ PointsNonNegative(scorecard)
        => /\ vendor_scores[i].status = "success"
           /\ \A j \in 1..Len(vendor_scores) :
                  HasFilledBuckets(vendors_list[j]) =>
                      vendor_scores[i].total_score <= vendor_scores[j].total_score

----------------------------------------------------------------------------
(* C18 *)

\* the rubric input is a JSON object without a `criteria` list
FlatRubric ==
    /\ scorecard_template.shape = "json"
    /\ scorecard_template.form = "flat"
    /\ scorecard_template.wrapper # "null"

\* C18 (as claimed): for a rubric given as a mapping keyed by the canonical
\* category names, each category's normalized `points` is the input entry's
\* `points` when the entry has one and the default 35 / 25 / 20 / 20 when the
\* entry is absent or has no `points`.
C18_FlatPoints ==
    pc # "start" /\ FlatRubric =>
        \A k \in CategorySet :
            LET entries == scorecard_template.entries
            IN  /\ k \in DOMAIN scorecard
                /\ scorecard[k].points =
                       IF k \in DOMAIN entries /\ entries[k].has_points
                       THEN entries[k].points
                       ELSE Num(category_mapping(k))

----------------------------------------------------------------------------
(* C19 *)

\* the guards of the actions: a statement of the body is next
CanStep ==
    \/ pc = "start"
    \/ pc = "parsed" /\ DOMAIN scorecard = {}
    \/ pc = "parsed" /\ DOMAIN scorecard # {}
    \/ pc = "scoring" /\ Len(vendor_scores) < Len(vendors_list)
    \/ pc = "scoring" /\ Len(vendor_scores) = Len(vendors_list)

\* C19: for every pair of inputs a call of Sxoring_Engine goes on to its
\* return, whatever was raised on the way: a call that has not returned has a
\* statement to execute next; the returned value has a run-level status
\* "success" or "error", and every entry of its vendor_scores has status
\* "success" or "error".
C19_AlwaysAStatus ==
    /\ ~Done => CanStep
    /\ Done =>
          /\ result.status \in {"success", "error"}
          /\ "vendor_scores" \in DOMAIN result =>
                 \A i \in 1..Len(result.vendor_scores) :
                     result.vendor_scores[i].status \in {"success", "error"}

\* C19 witness: an exception raised while the vendors were scored was caught
\* at the run level and returned as status "error"
C19_Witness ==
    /\ Done
    /\ result.status = "error"
    /\ "vendor_scores" \in DOMAIN result
    /\ Len(vendors_list) > 0

----------------------------------------------------------------------------
(* C20 *)

\* C20: a later call of Sxoring_Engine on the same rubric input and the same
\* vendor payload returns what the first call returned: the same
\* vendor_scores, winner, confidence and rubric metadata.
C20_Deterministic ==
    Done /\ run > 1 => result = first_result

\* C20 witness: the second call has returned a ranking of two scored vendors
C20_Witness ==
    /\ Done
    /\ run = 2
    /\ result.status = "success"
    /\ Len(result.vendor_scores) = 2
    /\ result.evaluation_metadata.vendors_evaluated = 2
    /\ first_result = result

----------------------------------------------------------------------------
(* C21 *)

\* the vendors of the list in the order p: position i holds vendor p[i]
Reordered(vendors, p) == [i \in 1..Len(vendors) |-> vendors[p[i]]]

----------------------------------------------------------------------------
(* C22 *)

\* the sum of one field of the four CategoryScoreResults of a VendorScore
RECURSIVE SumOverCategories(_, _, _)
SumOverCategories(breakdown, field, i) ==
    IF i > 4 THEN 0
    ELSE (IF field = "total_earned" THEN breakdown[Categories[i]].total_earned
          ELSE breakdown[Categories[i]].total_possible)
         + SumOverCategories(breakdown, field, i + 1)

\* C22: for every VendorScore with status "success", total_score is the sum
\* of the four categories' total_earned rounded to 2 decimal places (amounts
\* are in hundredths of a point, so a rounded amount is a whole number of
\* them), and total_possible is the sum of the four categories'
\* total_possible, which is 100 under the default points.
C22_Aggregation ==
    Done /\ result.status = "success" =>
        \A i \in 1..Len(result.vendor_scores) :
            LET score == result.vendor_scores[i]
            IN  score.status = "success" =>
                    /\ score.total_score =
                           RoundHalfEven(
                               SumOverCategories(score.category_breakdown, "total_earned", 1), 1)
                    /\ score.total_possible =
                           SumOverCategories(score.category_breakdown, "total_possible", 1)
                    /\ HasDefaultPoints(scorecard) => score.total_possible = 100

\* C22 witness: a vendor scored under the default rubric, 100 points possible
\* and a total_score that is not a whole number of points
C22_Witness ==
    /\ Done
    /\ result.status = "success"
    /\ HasDefaultPoints(scorecard)
    /\ \E i \in 1..Len(result.vendor_scores) :
           /\ result.vendor_scores[i].status = "success"
           /\ result.vendor_scores[i].total_possible = 100
           /\ result.vendor_scores[i].total_score % 100 # 0

----------------------------------------------------------------------------
(* C23 *)

\* the classification rules in the order the claim gives them
ClassificationRules ==
    << [words |-> {"technical", "solution"}, key |-> "technical_capability"],
       [words |-> {"cost", "financial"}, key |-> "cost_effectiveness"],
       [words |-> {"vendor", "experience"}, key |-> "vendor_experience"],
       [words |-> {"implementation"}, key |-> "implementation_approach"] >>

\* the rules whose keywords occur in the lower-cased name
RulesMatching(name) ==
    { r \in 1..4 : ClassificationRules[r].words \cap WordsIn(LowerUnderscore(name)) # {} }

\* the key of the first matching rule, the lower-cased name itself when no
\* rule matches
ClassifiedKey(name) ==
    IF RulesMatching(name) = {} THEN LowerUnderscore(name)
    ELSE ClassificationRules[Least(RulesMatching(name))].key

\* the rubric input is a criteria list whose entries are all JSON objects
ListRubric ==
    /\ scorecard_template.shape = "json"
    /\ scorecard_template.wrapper # "null"
    /\ scorecard_template.form = "list"
    /\ \A i \in 1..Len(scorecard_template.criteria) : scorecard_template.criteria[i].mapping

\* the default of criterion.get("weight", 25)
WeightOf(criterion) == IF criterion.has_weight THEN criterion.weight ELSE Num(25)

\* C23: in the list-of-criteria shape every entry is assigned to exactly one
\* key, that of the first rule (technical/solution, cost/financial,
\* vendor/experience, implementation, in this order) whose keyword occurs in
\* its lower-cased name; an entry matching no rule is kept under its own
\* name, and that key does not count in the total_possible of any scored
\* vendor, which is the sum over the four canonical categories.
C23_Classification ==
    pc # "start" /\ ListRubric =>
        LET criteria == scorecard_template.criteria
        IN  /\ DOMAIN scorecard = { ClassifiedKey(criteria[i].name) : i \in 1..Len(criteria) }
            /\ \A i \in 1..Len(criteria) :
                   LET key == ClassifiedKey(criteria[i].name)
                       last == CHOOSE j \in 1..Len(criteria) :
                                   /\ ClassifiedKey(criteria[j].name) = key
                                   /\ \A k \in 1..Len(criteria) :
                                          ClassifiedKey(criteria[k].name) = key => k <= j
                   IN  /\ scorecard[key].kind = "mapping"
                       /\ scorecard[key].has_points
                       /\ scorecard[key].points = WeightOf(criteria[last])
                       /\ RulesMatching(criteria[i].name) = {} => key \notin CategorySet
            /\ \A i \in 1..Len(vendor_scores) :
                   vendor_scores[i].status = "success" =>
                       vendor_scores[i].total_possible =
                           PointsOf(Fragment(scorecard, "technical_capability"), 35).val
                           + PointsOf(Fragment(scorecard, "cost_effectiveness"), 25).val
                           + PointsOf(Fragment(scorecard, "vendor_experience"), 20).val
                           + PointsOf(Fragment(scorecard, "implementation_approach"), 20).val

\* C23 witness: a list with an entry that matches two rules and an entry that
\* matches none; a vendor was scored out of the four categories only
C23_Witness ==
    /\ Done
    /\ ListRubric
    /\ Len(scorecard_template.criteria) = 2
    /\ scorecard_template.criteria[1].name = "Solution Cost"
    /\ scorecard_template.criteria[2].name = "Support"
    /\ DOMAIN scorecard = {"technical_capability", "support"}
    /\ result.status = "success"
    /\ \E i \in 1..Len(result.vendor_scores) :
           /\ result.vendor_scores[i].status = "success"
           /\ result.vendor_scores[i].total_possible = 30 + 25 + 20 + 20

----------------------------------------------------------------------------
(* C24 *)

\* the max_points of the four technical sub-criteria of a CategoryScoreResult
SumMaxPoints(category_scores) ==
    category_scores["solution_architecture"].max_points
    + category_scores["security_compliance"].max_points
    + category_scores["performance_sla"].max_points
    + category_scores["scalability"].max_points

RECURSIVE SumAllocations(_, _)
SumAllocations(criteria, names) ==
    IF names = {} THEN 0
    ELSE LET s == CHOOSE x \in names : TRUE
         IN  criteria[s] + SumAllocations(criteria, names \ {s})

\* C24 (as claimed): the sub-criteria allocations a category of the rubric
\* carries sum to the category's points, and for every scored vendor the
\* max_points of the four technical sub-criteria sum to the technical
\* total_possible.
C24_SubAllocationsSum ==
    /\ pc # "start" =>
           \A k \in DOMAIN scorecard :
               scorecard[k].kind = "mapping" /\ DOMAIN scorecard[k].criteria # {} =>
                   SumAllocations(scorecard[k].criteria, DOMAIN scorecard[k].criteria)
                       = scorecard[k].points.val
    /\ \A i \in 1..Len(vendor_scores) :
           vendor_scores[i].status = "success" =>
               SumMaxPoints(TechnicalResult(i).category_scores)
                   = TechnicalResult(i).total_possible

----------------------------------------------------------------------------
(* C25 *)

\* `criteria` fields a technical rubric entry may carry: none, the default
\* rubric's 10/10/9/6, and an even split
SubAllocations ==
    { NoCriteria, DefaultCriteria("technical_capability"),
      [s \in {TechnicalSubCriteria[i] : i \in 1..4} |-> 5] }

\* C25: for every scored vendor and non-negative integer technical points P,
\* the four max_points are floor(0.30 P), floor(0.30 P), floor(0.25 P) and
\* floor(0.15 P); their sum is at most P, the remainder is given to no
\* sub-criterion; and the result is the same whatever sub-criteria
\* allocations the rubric entry carries.
C25_SplitArithmetic ==
    \A i \in 1..Len(vendor_scores) :
        vendor_scores[i].status = "success" /\ TechnicalResult(i).total_possible >= 0 =>
            LET P == TechnicalResult(i).total_possible
                scores == TechnicalResult(i).category_scores
                entry == Fragment(scorecard, "technical_capability")
            IN  /\ P = PointsOf(entry, 35).val
                /\ scores["solution_architecture"].max_points = (30 * P) \div 100
                /\ scores["security_compliance"].max_points = (30 * P) \div 100
                /\ scores["performance_sla"].max_points = (25 * P) \div 100
                /\ scores["scalability"].max_points = (15 * P) \div 100
                /\ SumMaxPoints(scores) <= P
                /\ \A c \in SubAllocations :
                       calculate_technical_score([entry EXCEPT !.criteria = c],
                                                 vendors_list[i].technical_data)
                           = Returned(TechnicalResult(i))

\* C25 witness: a vendor scored under the default rubric, whose technical
\* entry carries 10/10/9/6: the max_points are 10/10/8/5 and 2 of the 35
\* points belong to no sub-criterion
C25_Witness ==
    /\ Len(vendor_scores) > 0
    /\ scorecard = DefaultScorecard
    /\ scorecard["technical_capability"].criteria["performance_sla"] = 9
    /\ vendor_scores[1].status = "success"
    /\ TechnicalResult(1).total_possible = 35
    /\ TechnicalResult(1).category_scores["performance_sla"].max_points = 8
    /\ TechnicalResult(1).category_scores["scalability"].max_points = 5
    /\ SumMaxPoints(TechnicalResult(1).category_scores) = 33

----------------------------------------------------------------------------
(* C26 *)

\* all four canonical categories of the rubric have positive integer points
PointsPositive(card) ==
    \A k \in CategorySet :
        /\ k \in DOMAIN card
        /\ card[k].kind = "mapping"
        /\ card[k].has_points
        /\ card[k].points.num
        /\ card[k].points.val > 0

\* C26 (as claimed): under a rubric whose four canonical categories have
\* positive integer points, every successfully scored vendor has an
\* overall_percentage strictly below 80 and grade "C", and the assessment's
\* confidence_level is "Medium".
C26_GradesUnreachable ==
    Done /\ result.status = "success" /\ PointsPositive(scorecard) =>
        /\ \A i \in 1..Len(result.vendor_scores) :
               result.vendor_scores[i].status = "success" =>
                   /\ result.vendor_scores[i].overall_percentage < 8000
                   /\ result.vendor_scores[i].grade = "C"
        /\ result.comprehensive_assessment.executive_summary.confidence_level = "Medium"


\* the winner of a returned assessment: the first of the best entries
WinnerOf(scores) == scores[Least(BestPositions(scores))]

\* C26 (amended): under such a rubric every successfully scored vendor has
\* an overall_percentage of at most 80.0, its grade is "C" whenever that
\* percentage is below 80.0, and grade "A" is never produced; the
\* confidence_level is "High" exactly when the winner's overall_percentage is
\* 80.0, and "Medium" otherwise.
C26_AtMostEighty ==
    Done /\ result.status = "success" /\ PointsPositive(scorecard) =>
        /\ \A i \in 1..Len(result.vendor_scores) :
               result.vendor_scores[i].status = "success" =>
                   /\ result.vendor_scores[i].overall_percentage <= 8000
                   /\ result.vendor_scores[i].overall_percentage < 8000 =>
                          result.vendor_scores[i].grade = "C"
                   /\ result.vendor_scores[i].grade # "A"
        /\ result.comprehensive_assessment.executive_summary.confidence_level =
               IF /\ BestPositions(result.vendor_scores) # {}
                  /\ WinnerOf(result.vendor_scores).overall_percentage = 8000
               THEN "High" ELSE "Medium"

\* C26 witness: a rubric of positive integer points under which the winner's
\* percentage is reported as 80.0 and the confidence as "High"
C26_Witness ==
    /\ Done
    /\ result.status = "success"
    /\ PointsPositive(scorecard)
    /\ BestPositions(result.vendor_scores) # {}
    /\ WinnerOf(result.vendor_scores).overall_percentage = 8000
    /\ WinnerOf(result.vendor_scores).total_score * 100
           < 80 * 100 * WinnerOf(result.vendor_scores).total_possible
    /\ result.comprehensive_assessment.executive_summary.confidence_level = "High"

----------------------------------------------------------------------------
(* C27 *)

TechnicalNames == {TechnicalSubCriteria[i] : i \in 1..4}

\* technical_data holds at least one of the six detector keys
HasDetectorKey(vendor) == vendor.technical_data.keys \cap DetectorKeys # {}

\* total_score of a vendor whose signalled sub-criteria are `signalled`
TotalFor(card, signalled) ==
    LET P == PointsOf(Fragment(card, "technical_capability"), 35).val
        tier(c) == IF c \in signalled THEN 80 ELSE 30
    IN  TruncDiv(P * 30, 100) * tier("solution_architecture")
        + TruncDiv(P * 30, 100) * tier("security_compliance")
        + TruncDiv(P * 25, 100) * tier("performance_sla")
        + TruncDiv(P * 15, 100) * tier("scalability")
        + 70 * PointsOf(Fragment(card, "cost_effectiveness"), 25).val
        + 75 * PointsOf(Fragment(card, "vendor_experience"), 20).val
        + 80 * PointsOf(Fragment(card, "implementation_approach"), 20).val

\* the higher of the two values of the claim
HigherValue(card) ==
    IF TotalFor(card, TechnicalNames) >= TotalFor(card, {})
    THEN TotalFor(card, TechnicalNames) ELSE TotalFor(card, {})

\* C27 (as claimed): under one rubric the total_score of a successfully
\* scored vendor is one of two values, selected solely by whether its
\* technical_data holds a detector key; the winner is the first vendor of the
\* list that holds the higher value, or the first successful vendor when none
\* holds it.
C27_TwoValued ==
    Done /\ result.status = "success" =>
        LET scores == result.vendor_scores
            successful == { i \in 1..Len(scores) : scores[i].status = "success" }
            holders == { i \in successful : scores[i].total_score = HigherValue(scorecard) }
            summary == result.comprehensive_assessment.executive_summary
        IN  /\ \A i \in successful :
                   scores[i].total_score =
                       IF HasDetectorKey(vendors_list[i])
                       THEN TotalFor(scorecard, TechnicalNames)
                       ELSE TotalFor(scorecard, {})
            /\ successful # {} =>
                   LET first == IF holders # {} THEN Least(holders) ELSE Least(successful)
                   IN  /\ summary.recommended_vendor = scores[first].vendor_name
                       /\ summary.winning_score = scores[first].total_score

\* the sub-criteria for which lines 331-334 find a signal in technical_data
SignalledSet(vendor) ==
    IF HasDetectorKey(vendor) THEN TechnicalNames
    ELSE vendor.technical_data.keys \cap TechnicalNames

\* C27 (amended): under one rubric the total_score of a successfully scored
\* vendor is decided by the sub-criteria that have a signal: all four when
\* technical_data holds a detector key, otherwise those whose own name is a
\* key, which gives more than two values; the winner is the first vendor of
\* the list that holds the highest total_score of the successful vendors.
C27_ValuesBySignals ==
    Done /\ result.status = "success" =>
        LET scores == result.vendor_scores
            successful == { i \in 1..Len(scores) : scores[i].status = "success" }
            best == { i \in successful :
                        \A j \in successful : scores[j].total_score <= scores[i].total_score }
            summary == result.comprehensive_assessment.executive_summary
        IN  /\ \A i \in successful :
                   scores[i].total_score = TotalFor(scorecard, SignalledSet(vendors_list[i]))
            /\ successful # {} =>
                   /\ summary.recommended_vendor = scores[Least(best)].vendor_name
                   /\ summary.winning_score = scores[Least(best)].total_score

\* C27 witness: neither vendor holds a detector key, the second has the key
\* "scalability" and a total_score between the two values, and it wins
C27_Witness ==
    /\ Done
    /\ result.status = "success"
    /\ Len(result.vendor_scores) = 2
    /\ result.vendor_scores[1].status = "success"
    /\ result.vendor_scores[2].status = "success"
    /\ ~HasDetectorKey(vendors_list[1])
    /\ ~HasDetectorKey(vendors_list[2])
    /\ SignalledSet(vendors_list[1]) = {}
    /\ SignalledSet(vendors_list[2]) = {"scalability"}
    /\ result.vendor_scores[1].total_score = TotalFor(scorecard, {})
    /\ result.vendor_scores[2].total_score > result.vendor_scores[1].total_score
    /\ result.vendor_scores[2].total_score < TotalFor(scorecard, TechnicalNames)
    /\ result.comprehensive_assessment.executive_summary.recommended_vendor
           = result.vendor_scores[2].vendor_name

----------------------------------------------------------------------------
(* C28 *)

\* C28 (as claimed): in every returned assessment the total_possible_points
\* of scorecard_analysis equals the total_possible of every successfully
\* scored vendor, also for criteria lists with unclassified entries or with
\* fewer than four categories.
C28_ReportTotalMatches ==
    Done /\ result.status = "success" =>
        \A i \in 1..Len(result.vendor_scores) :
            result.vendor_scores[i].status = "success" =>
                result.scorecard_analysis.total_possible_points
                    = result.vendor_scores[i].total_possible

----------------------------------------------------------------------------
(* C30 *)

\* C30: a returned assessment has one vendor_scores entry per vendor of the
\* scored list, in the order of the list, entries of status "error" included;
\* vendors_evaluated is the number of entries of status "success"; and when
\* there is a successful entry, the reported winner is a successful entry
\* whose name and total_score are recommended_vendor and winning_score.
C30_ShapeOfVendorScores ==
    Done /\ result.status = "success" =>
        LET scores == result.vendor_scores
            successful == { i \in 1..Len(scores) : scores[i].status = "success" }
            summary == result.comprehensive_assessment.executive_summary
        IN  /\ Len(scores) = Len(vendors_list)
            /\ \A i \in 1..Len(scores) :
                   /\ scores[i].vendor_name = VendorName(vendors_list[i])
                   /\ scores[i].status = "error" <=> ScoringRaises(vendors_list[i])
            /\ result.evaluation_metadata.vendors_evaluated = Cardinality(successful)
            /\ successful # {} =>
                   \E i \in successful :
                       /\ summary.recommended_vendor = scores[i].vendor_name
                       /\ summary.winning_score = scores[i].total_score
                       /\ result.evaluation_metadata.winner = scores[i].vendor_name
            /\ successful = {} => summary.recommended_vendor = "No winner"

\* C30 witness: two entries, the first of status "error" and kept, the second
\* successful and the winner
C30_Witness ==
    /\ Done
    /\ result.status = "success"
    /\ Len(result.vendor_scores) = 2
    /\ result.vendor_scores[1].status = "error"
    /\ result.vendor_scores[2].status = "success"
    /\ result.evaluation_metadata.vendors_evaluated = 1
    /\ result.comprehensive_assessment.executive_summary.recommended_vendor
           = result.vendor_scores[2].vendor_name

----------------------------------------------------------------------------
(* Multi_Vendor_Reader of src/Multi_Vendor_Reader.py, whose JSON output is *)
(* the vendor payload of Sxoring_Engine                                    *)

\* One vendor_proposal argument with what the storage returns for it.  path:
\* "none" (None, "" or blanks), "nonstr" (a truthy value without .strip()),
\* "cyberguard" / "securenet" (a folder path naming that vendor), "other" (a
\* path naming neither, last folder "Acme").  content, all files together:
\* "short" (at most 100 characters, or nothing readable), "plain" (longer,
\* none of the keywords), "rich" (longer, with the keywords).
Proposal(path, content) == [path |-> path, content |-> content]

ProposalInputs ==
    { Proposal("none", "short"), Proposal("nonstr", "short") }
    \cup { Proposal(path, content) : path \in {"cyberguard", "securenet", "other"},
                                     content \in {"short", "plain", "rich"} }

\* the vendor name of identify_vendor_from_path, for a non-empty path
identify_vendor_from_path(path) ==
    CASE path = "cyberguard" -> "Cyberguard"
      [] path = "securenet" -> "SecureNet"
      [] OTHER -> "Acme"

\* A feature mapping nested under the given group names; the value of a group
\* is its mapping of features, written as text
NestedFeatures(groups, content) ==
    FeatureBucket([g \in groups |->
                      IF content = "rich" THEN "{features found in the text}"
                      ELSE "{false, N/A and default texts}"])

extract_technical_features(content) ==
    NestedFeatures({"solution_architecture", "security_compliance",
                    "performance_sla", "scalability"}, content)

extract_financial_features(content) ==
    NestedFeatures({"total_cost_ownership", "pricing_model", "payment_terms"}, content)

extract_vendor_features(content) ==
    NestedFeatures({"company_experience", "project_references", "certifications"}, content)

extract_implementation_features(content) ==
    NestedFeatures({"implementation_methodology", "timeline", "project_management"},
                   content)

\* a vendor record as the reader writes it: the fields the scorer reads and
\* the reader's own status
ReaderRecord(name, status, technical, financial, experience, implementation) ==
    [mapping |-> TRUE, has_name |-> TRUE, vendor_name |-> name, status |-> status,
     technical_data |-> technical, financial_data |-> financial,
     vendor_data |-> experience, implementation_data |-> implementation]

\* lines 301-392, for an argument on which .strip() does not raise
process_single_vendor(proposal, expected_vendor) ==
    IF proposal.path = "none"
    THEN ReaderRecord(expected_vendor, "no_path_provided",
                      Bucket("mapping", {}), Bucket("mapping", {}),
                      Bucket("mapping", {}), Bucket("mapping", {}))
    ELSE IF proposal.content # "short"
    THEN ReaderRecord(identify_vendor_from_path(proposal.path), "success",
                      extract_technical_features(proposal.content),
                      extract_financial_features(proposal.content),
                      extract_vendor_features(proposal.content),
                      extract_implementation_features(proposal.content))
    ELSE ReaderRecord(identify_vendor_from_path(proposal.path), "insufficient_content",
                      Bucket("mapping", {}), Bucket("mapping", {}),
                      Bucket("mapping", {}), Bucket("mapping", {}))

\* lines 395-434: the JSON text returned; an argument without .strip() raises
\* inside the try and gives the status "error" payload with no vendors
Multi_Vendor_Reader(vendor_proposal_1, vendor_proposal_2) ==
    IF vendor_proposal_1.path = "nonstr" \/ vendor_proposal_2.path = "nonstr"
    THEN Payload("json", VendorData("error", "list", <<>>))
    ELSE Payload("json",
                 VendorData("success", "list",
                            << process_single_vendor(vendor_proposal_1, "Cyberguard"),
                               process_single_vendor(vendor_proposal_2, "SecureNet") >>))

ReaderPayloads ==
    { Multi_Vendor_Reader(p1, p2) : p1 \in ProposalInputs, p2 \in ProposalInputs }

\* Sxoring_Engine called with a rubric and the output of Multi_Vendor_Reader
InitPipeline ==
    /\ scorecard_template \in RubricInputs
    /\ extracted_data \in ReaderPayloads
    /\ pc = "start"
    /\ scorecard = EmptyScorecard
    /\ vendor_data = NoData
    /\ vendors_list = <<>>
    /\ vendor_scores = <<>>
    /\ mock_used = FALSE
    /\ result = NoResult
    /\ run = 1
    /\ first_result = NoResult

SpecPipeline == InitPipeline /\ [][Next]_vars

----------------------------------------------------------------------------
(* C29 *)

\* the records the reader emitted for this run
EmittedRecords == extracted_data.data.vendors

\* the run scored record i at the given tier for all four sub-criteria
AllAtTier(i, tier) ==
    /\ "vendor_scores" \in DOMAIN result
    /\ i <= Len(result.vendor_scores)
    /\ result.vendor_scores[i].status = "success"
    /\ \A c \in TechnicalNames :
           LET sub == result.vendor_scores[i].category_breakdown[
                          "technical_capability"].category_scores[c]
           IN  sub.earned_points = sub.max_points * tier

\* C29 (as claimed): every record the reader emits with status "success" has
\* its technical_data nested under the four sub-criterion names and gets the
\* 0.8 tier for all four, whatever the text was; every record emitted with
\* status "no_path_provided" or "insufficient_content" gets the 0.3 tier for
\* all four; two records of status "success" tie and the first is the winner.
C29_ReaderPipeline ==
    Done =>
        /\ \A i \in 1..Len(EmittedRecords) :
               /\ EmittedRecords[i].status = "success" =>
                      /\ EmittedRecords[i].technical_data.keys = TechnicalNames
                      /\ AllAtTier(i, 80)
               /\ EmittedRecords[i].status \in {"no_path_provided", "insufficient_content"} =>
                      AllAtTier(i, 30)
        /\ /\ Len(EmittedRecords) = 2
           /\ EmittedRecords[1].status = "success"
           /\ EmittedRecords[2].status = "success"
           => /\ result.status = "success"
              /\ result.vendor_scores[1].total_score = result.vendor_scores[2].total_score
              /\ result.comprehensive_assessment.executive_summary.recommended_vendor
                     = result.vendor_scores[1].vendor_name
              /\ result.comprehensive_assessment.executive_summary.winning_score
                     = result.vendor_scores[1].total_score

====
